---------------------------- MODULE Spec2Model ----------------------------
(***************************************************************************)
(* Model of the Gravity N-body engine (src/Gravity.h, src/Gravity.cpp,     *)
(* src/GravityMath.cpp).                                                   *)
(*                                                                         *)
(* Numbers.  The engine computes in C++ double.  A double is modelled as a *)
(* decimal floating-point number <<m, e>> standing for m * 10^e, with a    *)
(* mantissa of at most nine digits kept in normal form (no trailing zero,  *)
(* zero is <<0, 0>>), so that equal numbers are equal values.  Addition    *)
(* and comparison are exact up to nine digits, products, quotients and     *)
(* square roots are truncated to four or five digits.  Every decimal       *)
(* literal of the source is represented exactly; NaN and the infinities    *)
(* are outside the modelled input domain.                                  *)
(***************************************************************************)
EXTENDS Integers, Sequences, FiniteSets, TLC

\* ------------------------------------------------------------------------
\* Decimal floating point
\* ------------------------------------------------------------------------

P10Tab == <<1, 10, 100, 1000, 10000, 100000, 1000000, 10000000, 100000000, 1000000000>>

P10(k) == P10Tab[k + 1]

AbsI(n) == IF n < 0 THEN -n ELSE n

\* Division truncating toward zero (b > 0).
QuoT(a, b) == IF a >= 0 THEN a \div b ELSE -((-a) \div b)

\* Number of decimal digits of n >= 0.
Digits(n) ==
    IF n < 10000
    THEN (IF n < 100 THEN (IF n < 10 THEN 1 ELSE 2) ELSE (IF n < 1000 THEN 3 ELSE 4))
    ELSE IF n < 1000000 THEN (IF n < 100000 THEN 5 ELSE 6)
    ELSE IF n < 100000000 THEN (IF n < 10000000 THEN 7 ELSE 8)
    ELSE IF n < 1000000000 THEN 9 ELSE 10

\* The value of F at v, with v computed once: a local variable.
With(v, F(_)) == [[w |-> v] EXCEPT !.w = F(@)].w

\* Number of trailing decimal zeros of m # 0, |m| < 10^9.
TrailZ(m) == Cardinality({k \in 1..8 : m % P10Tab[k + 1] = 0})

\* m * 10^e with the trailing zeros of m # 0 moved into the exponent.
Strip(m, e) ==
    IF m % 10 # 0 THEN <<m, e>>
    ELSE With(TrailZ(m), LAMBDA z : <<m \div P10Tab[z + 1], e + z>>)

\* Normal form of m * 10^e, |m| < 2^31.
Norm(m, e) ==
    IF m = 0 THEN <<0, 0>>
    ELSE Strip(IF m >= 1000000000 \/ m <= -1000000000 THEN QuoT(m, 10) ELSE m,
               IF m >= 1000000000 \/ m <= -1000000000 THEN e + 1 ELSE e)

Zero == <<0, 0>>
Neg(a) == <<-a[1], a[2]>>
AbsD(a) == <<AbsI(a[1]), a[2]>>

\* The mantissa m shifted right by drop decimal places.
ShiftR(m, drop) ==
    IF drop = 0 THEN m ELSE IF drop > 9 THEN 0 ELSE QuoT(m, P10Tab[drop + 1])

Min(x, y) == IF x <= y THEN x ELSE y

\* hi + lo for non-zero hi, lo with hi[2] >= lo[2]: the mantissa of hi moves
\* up by up places, the mantissa of lo down by the rest.
AddUp(hi, lo, up) ==
    Norm(hi[1] * P10Tab[up + 1] + ShiftR(lo[1], hi[2] - lo[2] - up), hi[2] - up)

\* hi + lo for non-zero hi, lo with hi[2] >= lo[2].
AddOrdered(hi, lo) ==
    AddUp(hi, lo, Min(hi[2] - lo[2], 9 - Digits(AbsI(hi[1]))))

Add(a, b) ==
    IF a[1] = 0 THEN b
    ELSE IF b[1] = 0 THEN a
    ELSE AddOrdered(IF a[2] >= b[2] THEN a ELSE b, IF a[2] >= b[2] THEN b ELSE a)

Sub(a, b) == Add(a, Neg(b))

Lt(a, b) ==
    IF a[1] < 0 /\ b[1] >= 0 THEN TRUE
    ELSE IF a[1] >= 0 /\ b[1] <= 0 THEN FALSE
    ELSE Sub(a, b)[1] < 0

Le(a, b) == ~Lt(b, a)
MaxD(a, b) == IF Lt(a, b) THEN b ELSE a

\* The mantissa m of five digits at exponent e, cut to 46340 in magnitude.
Cut5(m, e) ==
    IF m > 46340 \/ m < -46340 THEN <<QuoT(m, 10), e + 1>> ELSE <<m, e>>

\* a with s > 0 digits of its mantissa dropped.
CutBy(a, s) == Cut5(QuoT(a[1], P10Tab[s + 1]), a[2] + s)

\* Mantissa cut to at most 46340 in magnitude, so that a product of two fits.
Cut(a) ==
    IF a[1] <= 46340 /\ a[1] >= -46340 THEN a
    ELSE CutBy(a, Digits(AbsI(a[1])) - 5)

\* x * y for mantissas that fit.
MulCut(x, y) == Norm(x[1] * y[1], x[2] + y[2])

Mul(a, b) ==
    IF a[1] = 0 \/ b[1] = 0 THEN Zero
    ELSE MulCut(Cut(a), Cut(b))

\* a / y for a cut y > 0, where sa is the number of places the mantissa of a
\* can move up.
DivCut(a, y, sa) == Norm(QuoT(a[1] * P10Tab[sa + 1], y[1]), a[2] - sa - y[2])

\* a / b, b > 0.
DivPos(a, b) == DivCut(a, Cut(b), 9 - Digits(AbsI(a[1])))

\* q with the sign of b turned.
SignOf(b, q) == IF b[1] < 0 THEN Neg(q) ELSE q

\* a / b, b # 0.
Div(a, b) ==
    IF a[1] = 0 THEN Zero
    ELSE SignOf(b, DivPos(a, AbsD(b)))

\* One Newton step of the integer square root of n from x >= Isqrt(n).
IsqrtStep(n, x) ==
    LET y == (x + n \div x) \div 2
    IN  IF y >= x THEN x ELSE y

\* Integer square root of n = 0 or 10^7 <= n < 10^9: from 31623 the Newton
\* iteration is at its fixed point within six steps.
Isqrt(n) ==
    IF n = 0 THEN 0
    ELSE [[v |-> 31623] EXCEPT !.v = IsqrtStep(n, @), !.v = IsqrtStep(n, @),
                               !.v = IsqrtStep(n, @), !.v = IsqrtStep(n, @),
                               !.v = IsqrtStep(n, @), !.v = IsqrtStep(n, @),
                               !.v = IsqrtStep(n, @)].v

\* Square root of the nine-digit mantissa m0 at exponent e0.
SqrtScaled(m0, e0) ==
    Norm(Isqrt(IF e0 % 2 = 0 THEN m0 ELSE m0 \div 10),
         (IF e0 % 2 = 0 THEN e0 ELSE e0 + 1) \div 2)

\* The square root of a > 0, its mantissa moved up by sa places.
SqrtUp(a, sa) == SqrtScaled(a[1] * P10Tab[sa + 1], a[2] - sa)

\* std::sqrt of a >= 0.
Sqrt(a) ==
    IF a[1] = 0 THEN Zero
    ELSE SqrtUp(a, 9 - Digits(a[1]))

\* The integer n as a double.
I2D(n) == Norm(n, 0)

\* Floor of a >= 0 as an integer, capped at 10^9.
FloorD(a) ==
    IF a[2] >= 0
    THEN (IF Digits(a[1]) + a[2] > 9 THEN 1000000000 ELSE a[1] * P10(a[2]))
    ELSE (IF a[2] < -9 THEN 0 ELSE a[1] \div P10(-a[2]))


\* ------------------------------------------------------------------------
\* Literals
\* ------------------------------------------------------------------------

\* The float literal 0.1f is 0.100000001490116...: it lies strictly between
\* the neighbouring nine-digit decimals 0.100000001 and 0.100000002, so
\* g < 0.1f holds of a nine-digit g exactly when g < 0.100000002.
F32_0_1_Above == <<100000002, -9>>

\* The float literal 0.01f is 0.00999999977648...: a < 0.01f holds of a
\* nine-digit a exactly when a < 0.00999999978.
F32_0_01_Above == <<999999978, -11>>

\* The float literal 0.8f, 0.800000011920929, to nine digits.
F32_0_8 == <<800000012, -9>>

\* M_PI to nine digits.
M_PI == <<314159265, -8>>

\* ------------------------------------------------------------------------
\* Body
\* ------------------------------------------------------------------------

BodyCount == 10

Slots == 0..(BodyCount - 1)

\* Body{}: every field zero.
ZeroBody == [x |-> Zero, y |-> Zero, vx |-> Zero, vy |-> Zero,
             ax |-> Zero, ay |-> Zero, mass |-> Zero]

Vector(vx, vy) == [x |-> vx, y |-> vy]

\* The loop  for (i = 0; i < 10; i++) S = step(S, i) : the updates are made
\* in sequence, each on the result of the one before.
Loop10(step(_, _), S) ==
    [[v |-> S] EXCEPT !.v = step(@, 0), !.v = step(@, 1), !.v = step(@, 2),
                      !.v = step(@, 3), !.v = step(@, 4), !.v = step(@, 5),
                      !.v = step(@, 6), !.v = step(@, 7), !.v = step(@, 8),
                      !.v = step(@, 9)].v

\* The loop  for (i = 0; i < 11; i++) S = step(S, i).
Loop11(step(_, _), S) ==
    [[v |-> S] EXCEPT !.v = step(@, 0), !.v = step(@, 1), !.v = step(@, 2),
                      !.v = step(@, 3), !.v = step(@, 4), !.v = step(@, 5),
                      !.v = step(@, 6), !.v = step(@, 7), !.v = step(@, 8),
                      !.v = step(@, 9), !.v = step(@, 10)].v

\* A statement that does nothing.
Skip(L) == L

\* The statements s1; s2; ...; s6 run in sequence on L, where L holds what
\* the statements read and write (the engine, the locals of the function).
Do(L, s1(_), s2(_), s3(_), s4(_), s5(_), s6(_)) ==
    [[v |-> L] EXCEPT !.v = s1(@), !.v = s2(@), !.v = s3(@),
                      !.v = s4(@), !.v = s5(@), !.v = s6(@)].v

\* ------------------------------------------------------------------------
\* GravityMath
\* ------------------------------------------------------------------------

calcRadiusFromCenter(x, y) == Add(Mul(x, x), Mul(y, y))

calcRelativePositionVector(x1, y1, x2, y2) == Vector(Sub(x2, x1), Sub(y2, y1))

calcEuclideanDistance(dx, dy) == Sqrt(Add(Mul(dx, dx), Mul(dy, dy)))

calcEuclideanDistance4(x1, y1, x2, y2) ==
    With(calcRelativePositionVector(x1, y1, x2, y2),
         LAMBDA v : calcEuclideanDistance(v.x, v.y))

calcPositionDamping(x, y, baseDamping) ==
    LET dist == Sqrt(Add(Mul(x, x), Mul(y, y)))
    IN  Mul(baseDamping, Add(<<1, 0>>, dist))

calcSpeed(vx, vy) == Sqrt(Add(Mul(vx, vx), Mul(vy, vy)))

calcAcceleration(ax, ay) == Sqrt(Add(Mul(ax, ax), Mul(ay, ay)))

clampSpeed(vx, vy, vmin_, vmax_) ==
    With(calcSpeed(vx, vy), LAMBDA speed :
        IF speed = Zero THEN Vector(vx, vy)
        ELSE IF Lt(speed, vmin_)
             THEN With(Div(vmin_, speed),
                       LAMBDA scale : Vector(Mul(vx, scale), Mul(vy, scale)))
        ELSE IF Lt(vmax_, speed)
             THEN With(Div(vmax_, speed),
                       LAMBDA scale : Vector(Mul(vx, scale), Mul(vy, scale)))
        ELSE Vector(vx, vy))

\* ------------------------------------------------------------------------
\* Gravity: diagnostics, defaults and the validated setters.  An engine is a
\* record S of the fields of class Gravity; diag counts the pd_error calls
\* of the running call and seed is the state of the C library's rand().
\* ------------------------------------------------------------------------

pd_error(S) == [S EXCEPT !.diag = @ + 1]

initParams(S) ==
    [S EXCEPT !.G = <<1, 0>>, !.dt = <<1, -2>>, !.pos_damping = <<3, -3>>,
              !.vel_damping = <<5, -3>>, !.softening = Zero,
              !.vmin = <<1, 0>>, !.vmax = <<5, 0>>]

\* resetBodies that zeroes the live bodies only.
resetBodies_LiveOnly(S) ==
    [S EXCEPT !.bodies = [i \in Slots |-> ZeroBody],
              !.setSince = {}]

\* resetBodies, with the history of the call: no slot has been configured
\* since.
resetBodies(S) ==
    [S EXCEPT !.bodies = [i \in Slots |-> ZeroBody],
              !.initBodies = [i \in Slots |-> ZeroBody],
              !.setSince = {}]

\* setG without the floor of 0.1 on the stored value.
setG_NoFloor(S, g) ==
    IF Lt(g, Zero) \/ Lt(<<1, 1>>, g) THEN pd_error(S)
    ELSE [S EXCEPT !.G = g]

setG(S, g) ==
    IF Lt(g, Zero) \/ Lt(<<1, 1>>, g) THEN pd_error(S)
    ELSE [S EXCEPT !.G = IF Lt(g, F32_0_1_Above) THEN <<1, -1>> ELSE g]

setDt(S, d) ==
    IF Le(d, Zero) \/ Lt(<<1, -1>>, d) THEN pd_error(S)
    ELSE [S EXCEPT !.dt = d]

setPosDamping(S, damp) ==
    IF Lt(damp, Zero) \/ Lt(<<1, -1>>, damp) THEN pd_error(S)
    ELSE [S EXCEPT !.pos_damping = Div(damp, <<1, 4>>)]

setVelDamping(S, damp) ==
    IF Lt(damp, Zero) \/ Lt(<<5, -1>>, damp) THEN pd_error(S)
    ELSE [S EXCEPT !.vel_damping = damp]

setSoftening(S, s) ==
    IF Lt(s, Zero) \/ Lt(<<5, 0>>, s) THEN pd_error(S)
    ELSE [S EXCEPT !.softening = s]

\* setVmin that leaves vmax alone.
setVmin_NoRaise(S, v) ==
    IF Lt(v, <<1, -1>>) \/ Lt(<<1, 3>>, v) THEN pd_error(S)
    ELSE [S EXCEPT !.vmin = v]

setVmin(S, v) ==
    IF Lt(v, <<1, -1>>) \/ Lt(<<1, 3>>, v) THEN pd_error(S)
    ELSE [S EXCEPT !.vmin = v, !.vmax = IF Lt(@, v) THEN v ELSE @]

\* setVmax that lowers vmin before it validates v.
setVmax_AdjustFirst(S, v) ==
    LET T == [S EXCEPT !.vmin = IF Lt(v, @) THEN v ELSE @]
    IN  IF Lt(v, <<1, 0>>) \/ Lt(<<1, 4>>, v) THEN pd_error(T)
        ELSE [T EXCEPT !.vmax = v]

setVmax(S, v) ==
    IF Lt(v, <<1, 0>>) \/ Lt(<<1, 4>>, v) THEN pd_error(S)
    ELSE [S EXCEPT !.vmax = v, !.vmin = IF Lt(v, @) THEN v ELSE @]

\* setBodyCount with the lower bound off by one.
setBodyCount_From1(S, count) ==
    IF count < 1 \/ count > BodyCount THEN pd_error(S)
    ELSE [S EXCEPT !.body_count = count]

setBodyCount(S, count) ==
    IF count < 2 \/ count > BodyCount THEN pd_error(S)
    ELSE [S EXCEPT !.body_count = count]

\* setBodyMass that writes the mass into the initial-body record as well.
setBodyMass_Both(S, index, mass) ==
    IF index < 0 \/ index > BodyCount - 1 THEN pd_error(S)
    ELSE IF Lt(mass, <<1, -1>>) \/ Lt(<<3, 1>>, mass) THEN pd_error(S)
    ELSE [S EXCEPT !.bodies[index].mass = mass, !.initBodies[index].mass = mass]

setBodyMass(S, index, mass) ==
    IF index < 0 \/ index > BodyCount - 1 THEN pd_error(S)
    ELSE IF Lt(mass, <<1, -1>>) \/ Lt(<<3, 1>>, mass) THEN pd_error(S)
    ELSE [S EXCEPT !.bodies[index].mass = mass]

setBlackHole(S, x, y, mass) ==
    IF Lt(x, <<-5, 2>>) \/ Lt(<<5, 2>>, x) THEN pd_error(S)
    ELSE IF Lt(y, <<-5, 2>>) \/ Lt(<<5, 2>>, y) THEN pd_error(S)
    ELSE IF Lt(mass, Zero) \/ Lt(<<1, 4>>, mass) THEN pd_error(S)
    ELSE [S EXCEPT !.blackHole = [x |-> x, y |-> y, vx |-> Zero, vy |-> Zero,
                                  ax |-> Zero, ay |-> Zero, mass |-> mass]]

\* nudge that also starts the counter afresh.
nudge_Restart(S) == [S EXCEPT !.nudge_mode = TRUE, !.nudge_step = 0]

nudge(S) == [S EXCEPT !.nudge_mode = TRUE]

\* ------------------------------------------------------------------------
\* The C library: rand(), cos, sin, tanh
\* ------------------------------------------------------------------------

\* RAND_MAX of the modelled generator.
RandMax == 8

\* rand(): a full-period linear congruential generator over 0..RandMax; the
\* value returned is the new state.
rand(seed) == (4 * seed + 1) % (RandMax + 1)

\* static_cast<double>(r) / RAND_MAX
RandUnit(r) == Div(I2D(r), I2D(RandMax))

\* The angle randomAngle() returns when rand() returned r.
randomAngle(r) == Mul(Mul(RandUnit(r), <<2, 0>>), M_PI)

\* The value randomRange(min, max) returns when rand() returned r.
randomRange(r, min, max) == Add(min, Mul(RandUnit(r), Sub(max, min)))

\* The angles of which the program takes a cosine or a sine: the random
\* angles, and the angles of the spiral, ring and burst presets.
TrigAngles ==
    [k \in 1..(RandMax + 1) |-> randomAngle(k - 1)]
    \o [k \in 1..BodyCount |-> Mul(I2D(k - 1), <<6, -1>>)]
    \o [k \in 1..BodyCount |-> Div(Mul(Mul(<<2, 0>>, M_PI), I2D(k - 1)), <<9, 0>>)]
    \o [k \in 1..BodyCount |-> Div(Mul(Mul(<<2, 0>>, M_PI), I2D(k - 1)), <<1, 1>>)]

\* std::cos and std::sin of those angles, to nine digits.
TrigCos ==
    <<<<1, 0>>, <<707106781, -9>>, <<6123234, -23>>,
      <<-707106781, -9>>, <<-1, 0>>, <<-707106781, -9>>,
      <<-18369702, -23>>, <<707106781, -9>>, <<1, 0>>,
      <<1, 0>>, <<825335615, -9>>, <<362357754, -9>>,
      <<-227202095, -9>>, <<-737393716, -9>>, <<-989992497, -9>>,
      <<-896758416, -9>>, <<-490260821, -9>>, <<874989834, -10>>,
      <<634692876, -9>>, <<1, 0>>, <<766044443, -9>>,
      <<173648178, -9>>, <<-5, -1>>, <<-939692621, -9>>,
      <<-939692621, -9>>, <<-5, -1>>, <<173648178, -9>>,
      <<766044443, -9>>, <<1, 0>>, <<1, 0>>,
      <<809016994, -9>>, <<309016994, -9>>, <<-309016994, -9>>,
      <<-809016994, -9>>, <<-1, 0>>, <<-809016994, -9>>,
      <<-309016994, -9>>, <<309016994, -9>>, <<809016994, -9>>>>

TrigSin ==
    <<Zero, <<707106781, -9>>, <<1, 0>>,
      <<707106781, -9>>, <<12246468, -23>>, <<-707106781, -9>>,
      <<-1, 0>>, <<-707106781, -9>>, <<-24492936, -23>>,
      Zero, <<564642473, -9>>, <<932039086, -9>>,
      <<973847631, -9>>, <<675463181, -9>>, <<141120008, -9>>,
      <<-442520443, -9>>, <<-871575772, -9>>, <<-996164609, -9>>,
      <<-772764488, -9>>, Zero, <<64278761, -8>>,
      <<984807753, -9>>, <<866025404, -9>>, <<342020143, -9>>,
      <<-342020143, -9>>, <<-866025404, -9>>, <<-984807753, -9>>,
      <<-64278761, -8>>, <<-24492936, -23>>, Zero,
      <<587785252, -9>>, <<951056516, -9>>, <<951056516, -9>>,
      <<587785252, -9>>, <<12246468, -23>>, <<-587785252, -9>>,
      <<-951056516, -9>>, <<-951056516, -9>>, <<-587785252, -9>>>>

\* The place of the angle a in the table.
TrigIdx(a) == With(TrigAngles, LAMBDA t : CHOOSE k \in 1..Len(t) : t[k] = a)

Cos(a) == TrigCos[TrigIdx(a)]

Sin(a) == TrigSin[TrigIdx(a)]

\* std::tanh(z), z >= 0, tabulated at the midpoints of steps of 0.25.
TanhTab ==
    <<<<124353002, -9>>, <<358357398, -9>>, <<554599722, -9>>,
      <<703905604, -9>>, <<80930107, -8>>, <<8798267, -7>>,
      <<925346225, -9>>, <<95404526, -8>>, <<971872746, -9>>,
      <<982845029, -9>>, <<989559749, -9>>, <<993654634, -9>>,
      <<996146531, -9>>, <<997660979, -9>>, <<998580659, -9>>,
      <<999138886, -9>>, <<999477619, -9>>, <<999683128, -9>>,
      <<999807795, -9>>, <<999883417, -9>>>>

Tanh(z) ==
    IF Le(<<19, 0>>, z) THEN <<1, 0>>
    ELSE IF Le(<<5, 0>>, z) THEN <<999999999, -9>>
    ELSE TanhTab[FloorD(Mul(z, <<4, 0>>)) + 1]

\* randomImpulse(minStrength, maxStrength) drawing from seed: the vector and
\* the generator's state afterwards.
randomImpulse(seed, minStrength, maxStrength) ==
    LET r1 == rand(seed)
        r2 == rand(r1)
    IN  With([angle    |-> randomAngle(r1),
              strength |-> randomRange(r2, minStrength, maxStrength)],
             LAMBDA L : [v |-> Vector(Mul(L.strength, Cos(L.angle)),
                                      Mul(L.strength, Sin(L.angle))),
                         seed |-> r2])

\* ------------------------------------------------------------------------
\* Gravity: force computation, body configuration, reset
\* ------------------------------------------------------------------------

\* The body of the loop of computeAcceleration from the relative position
\* on: the sum acc with the pull of other on target added, or acc itself
\* when the softened squared distance is below 0.0001.
pairAcceleration(S, target, other, acc) ==
    With(Do([v |-> Vector(Zero, Zero), distance |-> Zero,
             currentSoftening |-> Zero, distSqr |-> Zero,
             invDist |-> Zero, invDist3 |-> Zero],
            LAMBDA L1 : [L1 EXCEPT !.v =
                calcRelativePositionVector(target.x, target.y, other.x, other.y)],
            LAMBDA L1 : [L1 EXCEPT !.distance =
                calcEuclideanDistance(L1.v.x, L1.v.y)],
            LAMBDA L1 : [L1 EXCEPT !.currentSoftening =
                MaxD(S.softening, Mul(L1.distance, S.softening))],
            LAMBDA L1 : [L1 EXCEPT !.distSqr =
                Add(Add(Mul(L1.v.x, L1.v.x), Mul(L1.v.y, L1.v.y)),
                    Mul(L1.currentSoftening, L1.currentSoftening))],
            LAMBDA L1 : IF Le(L1.distSqr, Zero) \/ Lt(L1.distSqr, <<1, -4>>) THEN L1
                        ELSE [L1 EXCEPT !.invDist = Div(<<1, 0>>, Sqrt(L1.distSqr))],
            LAMBDA L1 : [L1 EXCEPT !.invDist3 =
                Mul(Mul(L1.invDist, L1.invDist), L1.invDist)]),
         LAMBDA L :
            IF Le(L.distSqr, Zero) \/ Lt(L.distSqr, <<1, -4>>) THEN acc
            ELSE Vector(Add(acc.x, Mul(Mul(Mul(S.G, other.mass), L.v.x), L.invDist3)),
                        Add(acc.y, Mul(Mul(Mul(S.G, other.mass), L.v.y), L.invDist3))))

\* One pass of the loop of computeAcceleration: the sum acc with the pull of
\* slot i on the target added; slot body_count is the black hole.
computeAccelerationStep(S, targetIndex, acc, i) ==
    IF \/ i >= S.body_count + 1
       \/ i = targetIndex
       \/ i = S.body_count /\ S.blackHole.mass = Zero
    THEN acc
    ELSE pairAcceleration(S, S.bodies[targetIndex],
                          IF i < S.body_count THEN S.bodies[i] ELSE S.blackHole, acc)

computeAcceleration(S, targetIndex) ==
    Loop11(LAMBDA acc, i : computeAccelerationStep(S, targetIndex, acc, i),
           Vector(Zero, Zero))

initBody(S, index) ==
    LET body == S.bodies[index]
    IN  With([v     |-> computeAcceleration(S, index),
              pdamp |-> calcPositionDamping(body.x, body.y, S.pos_damping)],
             LAMBDA L :
                 [S EXCEPT !.bodies[index].ax = Sub(L.v.x, Mul(body.x, L.pdamp)),
                           !.bodies[index].ay = Sub(L.v.y, Mul(body.y, L.pdamp))])

\* setBody, with the history of the call: lastSet[index] is the kinematics
\* passed, setAcc[index] the acceleration this call computed, and setSince
\* gains the slot.
setBody(S, index, x, y, vx, vy, mass) ==
    IF index < 0 \/ index > BodyCount - 1 THEN S
    ELSE With(initBody([S EXCEPT
                  !.bodies[index] = [x |-> x, y |-> y, vx |-> vx, vy |-> vy,
                                     ax |-> @.ax, ay |-> @.ay, mass |-> mass],
                  !.initBodies[index] = [x |-> x, y |-> y, vx |-> vx, vy |-> vy,
                                         ax |-> Zero, ay |-> Zero, mass |-> mass]],
                  index),
              LAMBDA T :
                  [T EXCEPT !.lastSet[index] = [x |-> x, y |-> y, vx |-> vx, vy |-> vy],
                            !.setAcc[index] = Vector(T.bodies[index].ax, T.bodies[index].ay),
                            !.setSince = @ \cup {index}])

\* One pass of the loop of reset that restores the position only.
resetStep_PositionOnly(S, i) ==
    LET iBody == S.initBodies[i]
    IN  initBody([S EXCEPT
            !.bodies[i] = [x |-> iBody.x, y |-> iBody.y, vx |-> @.vx, vy |-> @.vy,
                           ax |-> iBody.ax, ay |-> iBody.ay, mass |-> @.mass]], i)

\* One pass of the loop of reset.
resetStep(S, i) ==
    LET iBody == S.initBodies[i]
    IN  initBody([S EXCEPT
            !.bodies[i] = [x |-> iBody.x, y |-> iBody.y,
                           vx |-> iBody.vx, vy |-> iBody.vy,
                           ax |-> iBody.ax, ay |-> iBody.ay, mass |-> @.mass]], i)

reset(S) == Loop10(resetStep, S)

\* ------------------------------------------------------------------------
\* Gravity: the integration step
\* ------------------------------------------------------------------------

\* std::numeric_limits<double>::max()
DBL_MAX == <<179769313, 300>>

\* One pass of the inner loop of computeAdaptiveDt, for the pair i < j.
minDistStep(S, i, minDist, j) ==
    IF i >= S.body_count \/ j < i + 1 \/ j >= S.body_count THEN minDist
    ELSE With(calcEuclideanDistance4(S.bodies[i].x, S.bodies[i].y,
                                     S.bodies[j].x, S.bodies[j].y),
              LAMBDA dist : IF Lt(dist, minDist) THEN dist ELSE minDist)

computeAdaptiveDt(S) ==
    LET L == Do([minDist |-> DBL_MAX, scale |-> Zero, dampDt |-> Zero],
                LAMBDA L1 : [L1 EXCEPT !.minDist =
                    Loop10(LAMBDA m, i : Loop10(LAMBDA m2, j : minDistStep(S, i, m2, j), m), @)],
                LAMBDA L1 : [L1 EXCEPT !.scale =
                    Add(F32_0_8, Mul(F32_0_8, Tanh(Mul(L1.minDist, <<8, -1>>))))],
                LAMBDA L1 : [L1 EXCEPT !.dampDt = Mul(S.dt, L1.scale)],
                Skip, Skip, Skip)
    IN  MaxD(L.dampDt, <<1, -3>>)

\* One pass of the loop of applyMinSpeed.
applyMinSpeedStep(S, i) ==
    IF i >= S.body_count THEN S
    ELSE LET body == S.bodies[i]
             r    == calcRadiusFromCenter(body.x, body.y)
         IN  IF Lt(r, Mul(<<1, 2>>, <<1, 2>>)) THEN S
             ELSE With([v |-> calcSpeed(body.vx, body.vy),
                        a |-> calcAcceleration(body.ax, body.ay)],
                       LAMBDA L :
                           IF Lt(L.v, S.vmin) /\ Lt(L.a, F32_0_01_Above)
                           THEN With(randomImpulse(S.seed, <<2, -2>>, <<7, -2>>),
                                     LAMBDA imp :
                                         [S EXCEPT !.bodies[i].vx = Add(@, imp.v.x),
                                                   !.bodies[i].vy = Add(@, imp.v.y),
                                                   !.seed = imp.seed])
                           ELSE S)

applyMinSpeed(S) == Loop10(applyMinSpeedStep, S)

\* The body of the repulsion loop of applyCloseBodyRepulsion from the zone
\* test on, where V holds the relative position v and dist_sqr.
repelForce(S, index, repel_zone, repel_max, V) ==
    IF Lt(repel_zone, AbsD(V.v.x)) \/ Lt(repel_zone, AbsD(V.v.y)) THEN S
    ELSE IF Le(Mul(repel_zone, repel_zone), V.dist_sqr) THEN S
    ELSE With(Do([dist |-> Zero, norm |-> Zero, factor |-> Zero,
                  base_strength |-> Zero, r |-> S.seed, jitter |-> Zero],
                 LAMBDA L1 : [L1 EXCEPT !.dist = Add(Sqrt(V.dist_sqr), <<1, -6>>)],
                 LAMBDA L1 : [L1 EXCEPT !.norm = Div(<<1, 0>>, L1.dist)],
                 LAMBDA L1 : [L1 EXCEPT !.factor =
                     Div(Sub(repel_zone, L1.dist), repel_zone)],
                 LAMBDA L1 : [L1 EXCEPT !.base_strength =
                     Mul(Mul(repel_max, L1.factor), L1.factor)],
                 LAMBDA L1 : [L1 EXCEPT !.r = rand(@)],
                 LAMBDA L1 : [L1 EXCEPT !.jitter =
                     Mul(Mul(Sub(RandUnit(L1.r), <<5, -1>>), L1.base_strength),
                         <<2, 0>>)]),
              LAMBDA L :
                  [S EXCEPT
                      !.bodies[index].ax = Sub(@,
                          Mul(Mul(Add(L.base_strength, L.jitter), V.v.x), L.norm)),
                      !.bodies[index].ay = Sub(@,
                          Mul(Mul(Add(L.base_strength, L.jitter), V.v.y), L.norm)),
                      !.seed = L.r])

\* One pass of the repulsion loop of applyCloseBodyRepulsion, for neighbour j.
repelStep(S, index, j, repel_zone, repel_max) ==
    IF \/ j >= S.body_count + 1
       \/ j = index
       \/ j = S.body_count /\ S.blackHole.mass = Zero
    THEN S
    ELSE LET body   == S.bodies[index]
             nbbody == IF j < S.body_count THEN S.bodies[j] ELSE S.blackHole
         IN  With([v |-> calcRelativePositionVector(nbbody.x, nbbody.y, body.x, body.y),
                   dist_sqr |-> Zero],
                  LAMBDA V : repelForce(S, index, repel_zone, repel_max,
                      [V EXCEPT !.dist_sqr = Add(Mul(V.v.x, V.v.x), Mul(V.v.y, V.v.y))]))

\* isStagnating of applyCloseBodyRepulsion: slow and barely accelerated.
isStagnating(body, vmin_, amin) ==
    /\ Lt(calcSpeed(body.vx, body.vy), vmin_)
    /\ Lt(calcAcceleration(body.ax, body.ay), amin)

applyCloseBodyRepulsion(S, index, vmin_, amin, repel_zone, repel_max) ==
    IF index < 0 \/ index >= S.body_count THEN S
    ELSE LET body == S.bodies[index]
             r    == calcRadiusFromCenter(body.x, body.y)
         IN  IF Lt(r, Mul(<<1, 2>>, <<1, 2>>)) THEN S
             ELSE IF ~isStagnating(body, vmin_, amin) THEN S
             ELSE LET r1 == rand(S.seed)
                      r2 == rand(r1)
                  IN  With([angle   |-> Mul(Mul(RandUnit(r1), <<2, 0>>), M_PI),
                            impulse |-> Add(<<2, -2>>, Mul(RandUnit(r2), <<5, -2>>))],
                           LAMBDA L :
                               Loop11(LAMBDA T, j : repelStep(T, index, j, repel_zone, repel_max),
                                   [S EXCEPT
                                       !.bodies[index].vx = Add(@, Mul(L.impulse, Cos(L.angle))),
                                       !.bodies[index].vy = Add(@, Mul(L.impulse, Sin(L.angle))),
                                       !.seed = r2]))

\* The position update made for every slot, active or not.
driftStep_AllSlots(S, i, currentDt) ==
    LET body == S.bodies[i]
    IN  [S EXCEPT
            !.bodies[i].x = Add(@, Add(Mul(body.vx, currentDt),
                            Mul(Mul(Mul(<<5, -1>>, body.ax), currentDt), currentDt))),
            !.bodies[i].y = Add(@, Add(Mul(body.vy, currentDt),
                            Mul(Mul(Mul(<<5, -1>>, body.ay), currentDt), currentDt)))]

\* One pass of the first loop of simulate: the position update with the
\* adaptive step.
driftStep(S, i, currentDt) ==
    IF i >= S.body_count THEN S
    ELSE LET body == S.bodies[i]
         IN  [S EXCEPT
                 !.bodies[i].x = Add(@, Add(Mul(body.vx, currentDt),
                                 Mul(Mul(Mul(<<5, -1>>, body.ax), currentDt), currentDt))),
                 !.bodies[i].y = Add(@, Add(Mul(body.vy, currentDt),
                                 Mul(Mul(Mul(<<5, -1>>, body.ay), currentDt), currentDt)))]

\* One pass of the third loop of simulate: new acceleration and stagnation
\* repulsion.
accelStep(S, i) ==
    IF i >= S.body_count THEN S
    ELSE LET body == S.bodies[i]
         IN  Do([S |-> S, v |-> Vector(Zero, Zero), pdamp |-> Zero],
                LAMBDA L : [L EXCEPT !.v = computeAcceleration(S, i)],
                LAMBDA L : [L EXCEPT !.pdamp =
                    calcPositionDamping(body.x, body.y, S.pos_damping)],
                LAMBDA L : [L EXCEPT !.S.bodies[i].ax = Sub(L.v.x, Mul(body.x, L.pdamp)),
                                     !.S.bodies[i].ay = Sub(L.v.y, Mul(body.y, L.pdamp))],
                LAMBDA L : [L EXCEPT !.S =
                    applyCloseBodyRepulsion(@, i, <<2, -2>>, <<1, -3>>, <<1, 0>>, <<1, -1>>)],
                Skip, Skip).S

\* The impulse of the nudge block: randomImpulse(-nudge_factor / 2,
\* nudge_factor / 2).
nudgeImpulse(seed_, nudge_factor) ==
    randomImpulse(seed_, Div(Neg(nudge_factor), <<2, 0>>), Div(nudge_factor, <<2, 0>>))

\* The nudge block of the velocity loop, for body i.  overridden records, as
\* history, the bodies whose velocity the block replaced in this call.
nudgeBlock(S, i) ==
    IF ~S.nudge_mode THEN S
    ELSE LET T == IF S.nudge_step = 20
                  THEN [S EXCEPT !.nudge_mode = FALSE, !.nudge_step = 0]
                  ELSE S
         IN  With(nudgeImpulse(S.seed, Mul(<<1, 1>>, Add(<<5, 0>>, S.pos_damping))),
                  LAMBDA imp :
                      [T EXCEPT !.bodies[i].vx = imp.v.x, !.bodies[i].vy = imp.v.y,
                                !.nudge_step = @ + 1, !.seed = imp.seed,
                                !.overridden = @ \cup {i}])

\* One pass of the fourth loop of simulate: velocity update, nudge, damping,
\* clamping.  old holds the accelerations saved by the second loop.
kickStep(S, i, old, currentDt) ==
    IF i >= S.body_count THEN S
    ELSE Do([S |-> S, speed |-> Zero, vdamp |-> Zero],
            LAMBDA L : [L EXCEPT
                !.S.bodies[i].vx = Add(@, Mul(Mul(<<5, -1>>,
                                       Add(old[i].ax, S.bodies[i].ax)), currentDt)),
                !.S.bodies[i].vy = Add(@, Mul(Mul(<<5, -1>>,
                                       Add(old[i].ay, S.bodies[i].ay)), currentDt))],
            LAMBDA L : [L EXCEPT !.S = nudgeBlock(@, i)],
            LAMBDA L : [L EXCEPT !.speed = calcSpeed(L.S.bodies[i].vx, L.S.bodies[i].vy)],
            LAMBDA L : [L EXCEPT !.vdamp = Mul(S.vel_damping, Add(<<1, 0>>, L.speed))],
            LAMBDA L : [L EXCEPT !.S.bodies[i].vx = Mul(@, Sub(<<1, 0>>, L.vdamp)),
                                 !.S.bodies[i].vy = Mul(@, Sub(<<1, 0>>, L.vdamp))],
            LAMBDA L : With(clampSpeed(L.S.bodies[i].vx, L.S.bodies[i].vy, S.vmin, S.vmax),
                            LAMBDA v : [L EXCEPT !.S.bodies[i].vx = v.x,
                                                 !.S.bodies[i].vy = v.y])).S

simulate(S) ==
    Do([S |-> [S EXCEPT !.overridden = {}], currentDt |-> Zero, old |-> S.bodies],
       LAMBDA L : [L EXCEPT !.currentDt = computeAdaptiveDt(S)],
       LAMBDA L : [L EXCEPT !.S = Loop10(LAMBDA T, i : driftStep(T, i, L.currentDt), @)],
       LAMBDA L : [L EXCEPT !.old = L.S.bodies],
       LAMBDA L : [L EXCEPT !.S = Loop10(accelStep, @)],
       LAMBDA L : [L EXCEPT !.S = Loop10(LAMBDA T, i : kickStep(T, i, L.old, L.currentDt), @)],
       LAMBDA L : [L EXCEPT !.S = applyMinSpeed(@)]).S

\* ------------------------------------------------------------------------
\* Gravity: the preset library
\* ------------------------------------------------------------------------

\* setG, setDt, setSoftening, setPosDamping, setVelDamping and setBodyCount
\* arguments of cases 0..13, in the order of the calls.
PresetParamTab ==
    <<<<<<1, -1>>, <<1, -2>>, Zero, <<2, -2>>, <<5, -3>>, 10>>,
      <<<<1, -1>>, <<1, -2>>, Zero, <<2, -2>>, <<1, -2>>, 10>>,
      <<<<1, -1>>, <<1, -2>>, Zero, <<2, -2>>, <<1, -2>>, 10>>,
      <<<<3, -1>>, <<8, -3>>, Zero, <<2, -2>>, <<1, -2>>, 10>>,
      <<<<1, -1>>, <<2, -2>>, <<5, -1>>, <<2, -2>>, <<2, -3>>, 10>>,
      <<<<5, -1>>, <<1, -2>>, <<4, -1>>, <<2, -2>>, <<1, -2>>, BodyCount>>,
      <<<<2, -1>>, <<1, -2>>, Zero, <<2, -2>>, <<5, -3>>, 10>>,
      <<<<1, 0>>, <<5, -3>>, <<1, -2>>, Zero, Zero, 3>>,
      <<<<15, -2>>, <<1, -2>>, <<2, -1>>, <<2, -2>>, <<5, -3>>, BodyCount>>,
      <<<<2, -1>>, <<8, -3>>, Zero, <<2, -2>>, <<1, -2>>, BodyCount>>,
      <<<<15, -2>>, <<1, -2>>, <<5, -2>>, <<2, -2>>, <<5, -4>>, 5>>,
      <<<<2, -1>>, <<8, -3>>, <<5, -2>>, <<2, -2>>, <<1, -3>>, 6>>,
      <<<<25, -2>>, <<7, -3>>, <<7, -2>>, <<2, -2>>, <<2, -4>>, 7>>,
      <<<<15, -2>>, <<9, -3>>, <<5, -2>>, <<2, -2>>, <<5, -4>>, 3>>>>

presetParams(S, p) ==
    LET t == PresetParamTab[p + 1]
    IN  setBodyCount(setVelDamping(setPosDamping(setSoftening(setDt(setG(S,
            t[1]), t[2]), t[3]), t[4]), t[5]), t[6])

\* The calls setBody(b[1], b[2], ..., b[6]) for the entries b of calls_, in
\* order; no preset makes more than eleven.
setBodies(S, calls_) ==
    Loop11(LAMBDA T, i :
               IF i >= Len(calls_) THEN T
               ELSE LET b == calls_[i + 1]
                    IN  setBody(T, b[1], b[2], b[3], b[4], b[5], b[6]),
           S)

\* case 0: the setBody calls written out in the source.
PresetBodies0 ==
    <<<<0, <<5, 1>>, Zero, Zero, <<4, -1>>, <<1, 0>>>>,
      <<1, <<4, 1>>, <<4, 1>>, <<-3, -1>>, <<3, -1>>, <<1, 0>>>>,
      <<2, Zero, <<5, 1>>, <<-4, -1>>, Zero, <<1, 0>>>>,
      <<3, <<-4, 1>>, <<4, 1>>, <<-3, -1>>, <<-3, -1>>, <<1, 0>>>>,
      <<4, <<-5, 1>>, Zero, Zero, <<-4, -1>>, <<1, 0>>>>,
      <<5, <<-4, 1>>, <<-4, 1>>, <<3, -1>>, <<-3, -1>>, <<1, 0>>>>,
      <<6, Zero, <<-5, 1>>, <<4, -1>>, Zero, <<1, 0>>>>,
      <<7, <<4, 1>>, <<-8, 0>>, <<3, -1>>, <<3, -1>>, <<1, 0>>>>,
      <<8, Zero, Zero, Zero, Zero, <<3, 0>>>>,
      <<9, Zero, <<3, 1>>, Zero, Zero, <<5, -1>>>>>>

\* case 1: the setBody calls written out in the source.
PresetBodies1 ==
    <<<<0, <<5, 1>>, <<2, 1>>, <<1, -1>>, <<5, -2>>, <<1, 0>>>>,
      <<1, <<-4, 1>>, <<-1, 1>>, <<-1, -1>>, <<1, -1>>, <<1, 0>>>>,
      <<2, <<-6, 1>>, <<7, 1>>, <<1, -1>>, <<-5, -2>>, <<1, 0>>>>,
      <<3, <<3, 1>>, <<-6, 1>>, <<-1, -1>>, <<-1, -1>>, <<1, 0>>>>,
      <<4, <<1, 1>>, <<1, 1>>, Zero, Zero, <<2, 0>>>>,
      <<5, <<-1, 1>>, <<-4, 1>>, <<5, -2>>, Zero, <<8, -1>>>>,
      <<6, Zero, <<-7, 1>>, Zero, <<1, -1>>, <<8, -1>>>>,
      <<7, <<-8, 1>>, <<2, 1>>, <<1, -1>>, Zero, <<8, -1>>>>,
      <<8, <<7, 1>>, <<-2, 1>>, <<-5, -2>>, <<1, -1>>, <<8, -1>>>>,
      <<9, Zero, Zero, Zero, Zero, <<3, 0>>>>>>

\* case 6: the setBody calls written out in the source.
PresetBodies6 ==
    <<<<0, <<-5, 1>>, Zero, Zero, <<3, -1>>, <<1, 0>>>>,
      <<1, <<-3, 1>>, Zero, Zero, <<-3, -1>>, <<1, 0>>>>,
      <<2, <<5, 1>>, Zero, Zero, <<-3, -1>>, <<1, 0>>>>,
      <<3, <<3, 1>>, Zero, Zero, <<3, -1>>, <<1, 0>>>>,
      <<4, Zero, <<8, 1>>, <<-3, -1>>, Zero, <<1, 0>>>>,
      <<5, Zero, <<6, 1>>, <<3, -1>>, Zero, <<1, 0>>>>,
      <<6, Zero, <<-6, 1>>, <<3, -1>>, Zero, <<1, 0>>>>,
      <<7, Zero, <<-8, 1>>, <<-3, -1>>, Zero, <<1, 0>>>>,
      <<8, Zero, Zero, Zero, Zero, <<2, 0>>>>,
      <<9, Zero, <<2, 1>>, Zero, Zero, <<5, -1>>>>>>

\* case 7: the setBody calls written out in the source.
PresetBodies7 ==
    <<<<0, Zero, Zero, <<347111, -6>>, <<532728, -6>>, <<1, 0>>>>,
      <<1, <<970004, -6>>, <<-243087, -6>>, <<-347111, -6>>, <<532728, -6>>, <<1, 0>>>>,
      <<2, <<-970004, -6>>, <<243087, -6>>, Zero, <<-1065456, -6>>, <<1, 0>>>>>>

\* case 10: the setBody calls written out in the source.
PresetBodies10 ==
    <<<<0, <<-12, 1>>, <<8, 1>>, <<9, -1>>, <<-4, -1>>, <<15, -1>>>>,
      <<1, <<1, 2>>, <<6, 1>>, <<-5, -1>>, <<6, -1>>, <<2, 0>>>>,
      <<2, Zero, <<-1, 2>>, <<4, -1>>, <<8, -1>>, <<12, -1>>>>,
      <<3, <<5, 1>>, <<5, 1>>, <<-9, -1>>, <<-2, -1>>, <<8, -1>>>>,
      <<4, <<-7, 1>>, <<-8, 1>>, <<6, -1>>, <<3, -1>>, <<1, 0>>>>>>

\* case 11: the setBody calls written out in the source.
PresetBodies11 ==
    <<<<0, <<-4, 1>>, <<2, 1>>, <<5, -1>>, <<4, -1>>, <<1, 0>>>>,
      <<1, <<3, 1>>, <<-1, 1>>, <<-6, -1>>, <<3, -1>>, <<18, -1>>>>,
      <<2, Zero, Zero, <<1, -1>>, <<-5, -1>>, <<6, -1>>>>,
      <<3, <<-3, 1>>, <<-3, 1>>, <<3, -1>>, <<6, -1>>, <<12, -1>>>>,
      <<4, <<6, 1>>, <<1, 1>>, <<-4, -1>>, <<-3, -1>>, <<15, -1>>>>,
      <<5, <<-5, 1>>, <<4, 1>>, <<7, -1>>, <<-1, -1>>, <<9, -1>>>>>>

\* case 12: the setBody calls written out in the source.
PresetBodies12 ==
    <<<<0, <<-2, 2>>, <<1, 2>>, <<1, 0>>, <<-3, -1>>, <<12, -1>>>>,
      <<1, <<18, 1>>, <<8, 1>>, <<-8, -1>>, <<6, -1>>, <<21, -1>>>>,
      <<2, Zero, <<-9, 1>>, <<5, -1>>, <<9, -1>>, <<7, -1>>>>,
      <<3, <<6, 1>>, <<2, 2>>, <<-11, -1>>, <<-2, -1>>, <<14, -1>>>>,
      <<4, <<-16, 1>>, <<-15, 1>>, <<9, -1>>, <<4, -1>>, <<1, 0>>>>,
      <<5, <<3, 1>>, <<-7, 1>>, <<-3, -1>>, <<-8, -1>>, <<8, -1>>>>,
      <<6, <<9, 1>>, Zero, <<-5, -1>>, <<5, -1>>, <<16, -1>>>>>>

\* case 13: the setBody calls written out in the source.
PresetBodies13 ==
    <<<<0, <<-1, 2>>, <<-5, 1>>, <<65, -2>>, <<3, -1>>, <<12, -1>>>>,
      <<1, <<1, 2>>, <<-5, 1>>, <<-6, -1>>, <<35, -2>>, <<18, -1>>>>,
      <<2, Zero, <<12, 1>>, <<-5, -2>>, <<-7, -1>>, <<2, 0>>>>>>

\* case 2: spiral.
PresetBodies2 ==
    [k \in 1..10 |->
        With([angle  |-> Mul(I2D(k - 1), <<6, -1>>),
              radius |-> Mul(<<2, 1>>, I2D(k - 1))],
             LAMBDA L : With([cos |-> Cos(L.angle), sin |-> Sin(L.angle)],
                 LAMBDA t : <<k - 1, Mul(t.cos, L.radius), Mul(t.sin, L.radius),
                              Mul(Neg(t.sin), <<2, -1>>), Mul(t.cos, <<2, -1>>),
                              <<1, 0>>>>))]

\* case 3: cross; bodies i and i + 5 are set alternately.
PresetBodies3 ==
    [k \in 1..10 |->
        With(Sub(Mul(I2D((k - 1) \div 2), <<5, 1>>), <<1, 2>>),
             LAMBDA c : IF k % 2 = 1
                        THEN <<(k - 1) \div 2, Zero, c, <<2, -1>>, Zero, <<1, 0>>>>
                        ELSE <<(k - 1) \div 2 + 5, c, Zero, Zero, <<-2, -1>>, <<1, 0>>>>)]

\* case 4: ring of ten, then body 9 replaced by the centre mass.
PresetBodies4 ==
    [k \in 1..10 |->
        With(Div(Mul(Mul(<<2, 0>>, M_PI), I2D(k - 1)), <<9, 0>>),
             LAMBDA angle : With([cos |-> Cos(angle), sin |-> Sin(angle)],
                 LAMBDA t : <<k - 1, Mul(<<1, 2>>, t.cos), Mul(<<1, 2>>, t.sin),
                              Mul(Neg(t.sin), <<5, -1>>), Mul(t.cos, <<5, -1>>),
                              <<1, 0>>>>))]
    \o <<<<9, Zero, Zero, Zero, Zero, <<5, 0>>>>>>

\* case 5: random cluster; five rand() draws per body.
presetRandomStep(S, i) ==
    LET r1 == rand(S.seed)
        r2 == rand(r1)
        r3 == rand(r2)
        r4 == rand(r3)
        r5 == rand(r4)
        x  == I2D((r1 % 200) - 100)
        y  == I2D((r2 % 200) - 100)
        vx == Mul(I2D((r3 % 200) - 100), <<5, -3>>)
        vy == Mul(I2D((r4 % 200) - 100), <<5, -3>>)
        m  == Add(<<5, -1>>, Mul(I2D(r5 % 100), <<1, -2>>))
    IN  setBody([S EXCEPT !.seed = r5], i, x, y, vx, vy, m)

\* case 7: the three written-out bodies, then bodies 3..9 set to zero.
PresetBodies7Rest ==
    [k \in 1..(BodyCount - 3) |-> <<k + 2, Zero, Zero, Zero, Zero, Zero>>]

\* case 8: line of increasing mass and spacing.
PresetBodies8 ==
    [k \in 1..BodyCount |->
        LET i == k - 1
        IN  <<i, Mul(I2D(i), <<5, 1>>), Zero, Zero, Mul(I2D(i - 5), <<1, -1>>),
              Add(<<5, -1>>, Mul(<<5, -1>>, I2D(i)))>>]

\* case 9: radial burst.
PresetBodies9 ==
    [k \in 1..BodyCount |->
        With(Div(Mul(Mul(<<2, 0>>, M_PI), I2D(k - 1)), <<1, 1>>),
             LAMBDA angle : <<k - 1, Zero, Zero, Mul(Cos(angle), <<3, -1>>),
                              Mul(Sin(angle), <<3, -1>>), <<1, 0>>>>)]

PresetBodyTab ==
    <<PresetBodies0, PresetBodies1, PresetBodies2, PresetBodies3, PresetBodies4,
      <<>>, PresetBodies6, PresetBodies7 \o PresetBodies7Rest, PresetBodies8,
      PresetBodies9, PresetBodies10, PresetBodies11, PresetBodies12, PresetBodies13>>

\* A clamp of the preset index to 1..13.
clampPreset_To13(presetIndex) ==
    IF presetIndex < 1 THEN 1 ELSE IF presetIndex > 13 THEN 13 ELSE presetIndex

\* The clamp of the preset index to 1..14.
clampPreset(presetIndex) ==
    IF presetIndex < 1 THEN 1 ELSE IF presetIndex > 14 THEN 14 ELSE presetIndex

\* resetBodies and case p of the switch.
presetCase(S, p) ==
    With(presetParams(resetBodies(S), p),
         LAMBDA T : IF p = 5 THEN Loop10(presetRandomStep, T)
                    ELSE setBodies(T, PresetBodyTab[p + 1]))

loadPreset(S, presetIndex) == presetCase(S, clampPreset(presetIndex) - 1)

\* ------------------------------------------------------------------------
\* State
\* ------------------------------------------------------------------------

VARIABLES
    bodies, initBodies, blackHole,      \* Body arrays and the black hole
    G, dt, pos_damping, vel_damping,    \* scalar parameters
    softening, vmin, vmax, body_count,
    nudge_mode, nudge_step,             \* nudge flag and counter
    seed,                               \* state of rand()
    diag,                               \* pd_error calls of the last call
    lastSet, setAcc,                    \* history: arguments and result of the last setBody per slot
    setSince,                           \* history: slots passed to setBody since the last resetBodies
    steps,                              \* history: number of simulate calls made
    overridden,                         \* history: bodies nudged by the last simulate
    nudgeAge,                           \* history: simulate calls since nudge() armed the mode, -1 if never
    armedCount,                         \* history: body_count when nudge() armed the mode, 0 once it has changed since
    last,                               \* history: the last public call and its arguments
    calls,                              \* number of public calls made
    mathArgs,                           \* arguments of the GravityMath call under test, <<>> if none
    mathRet                             \* the values it returned, in order

vars == <<bodies, initBodies, blackHole, G, dt, pos_damping, vel_damping, softening,
          vmin, vmax, body_count, nudge_mode, nudge_step, seed, diag, lastSet, setAcc,
          setSince, steps, overridden, nudgeAge, armedCount, last, calls, mathArgs,
          mathRet>>

\* The variables of the engine and of its history.
engineVars ==
    <<bodies, initBodies, blackHole, G, dt, pos_damping, vel_damping, softening,
      vmin, vmax, body_count, nudge_mode, nudge_step, seed, diag, lastSet, setAcc,
      setSince, steps, overridden, nudgeAge, armedCount, last, calls>>

\* The engine as a record.
Eng ==
    [bodies |-> bodies, initBodies |-> initBodies, blackHole |-> blackHole,
     G |-> G, dt |-> dt, pos_damping |-> pos_damping, vel_damping |-> vel_damping,
     softening |-> softening, vmin |-> vmin, vmax |-> vmax, body_count |-> body_count,
     nudge_mode |-> nudge_mode, nudge_step |-> nudge_step, seed |-> seed, diag |-> diag,
     lastSet |-> lastSet, setAcc |-> setAcc, setSince |-> setSince,
     overridden |-> overridden]

\* Everything a getter of the engine can observe.
Observable(S) ==
    <<S.bodies, S.initBodies, S.blackHole, S.G, S.dt, S.pos_damping, S.vel_damping,
      S.softening, S.vmin, S.vmax, S.body_count>>

\* The Gravity() constructor on storage whose blackHole member holds bh (no
\* constructor code initialises it) with rand() in state sd.
Gravity(bh, sd) ==
    loadPreset(initParams(
        [bodies |-> [i \in Slots |-> ZeroBody], initBodies |-> [i \in Slots |-> ZeroBody],
         blackHole |-> bh,
         G |-> Zero, dt |-> Zero, pos_damping |-> Zero, vel_damping |-> Zero,
         softening |-> Zero, vmin |-> Zero, vmax |-> Zero,
         body_count |-> 3, nudge_mode |-> FALSE, nudge_step |-> 0,
         seed |-> sd, diag |-> 0,
         lastSet |-> [i \in Slots |-> [x |-> Zero, y |-> Zero, vx |-> Zero, vy |-> Zero]],
         setAcc |-> [i \in Slots |-> Vector(Zero, Zero)],
         setSince |-> {}, overridden |-> {}]), 0)

\* Contents the uninitialised blackHole member may have at construction.
BlackHoleInit ==
    {ZeroBody,
     [x |-> <<7, 2>>, y |-> <<-3, 0>>, vx |-> <<1, 0>>, vy |-> Zero,
      ax |-> Zero, ay |-> <<2, 0>>, mass |-> <<5, 0>>]}

\* States of rand() at construction.
SeedInit == {0, 3}

\* The engine after construction.
InitEngine ==
    \E bh \in BlackHoleInit, sd \in SeedInit :
        \E S \in {Gravity(bh, sd)} :
            /\ bodies = S.bodies /\ initBodies = S.initBodies /\ blackHole = S.blackHole
            /\ G = S.G /\ dt = S.dt /\ pos_damping = S.pos_damping
            /\ vel_damping = S.vel_damping /\ softening = S.softening
            /\ vmin = S.vmin /\ vmax = S.vmax /\ body_count = S.body_count
            /\ nudge_mode = S.nudge_mode /\ nudge_step = S.nudge_step
            /\ seed = S.seed /\ diag = S.diag
            /\ lastSet = S.lastSet /\ setAcc = S.setAcc /\ setSince = S.setSince
            /\ overridden = S.overridden
            /\ steps = 0
            /\ nudgeAge = -1
            /\ armedCount = 0
            /\ last = [op |-> "Gravity", args |-> <<>>]
            /\ calls = 0

Init == InitEngine /\ mathArgs = <<>> /\ mathRet = <<>>

\* A public call op(args) that takes the engine to T.
Call(op, args, T) ==
    /\ bodies' = T.bodies /\ initBodies' = T.initBodies /\ blackHole' = T.blackHole
    /\ G' = T.G /\ dt' = T.dt /\ pos_damping' = T.pos_damping
    /\ vel_damping' = T.vel_damping /\ softening' = T.softening
    /\ vmin' = T.vmin /\ vmax' = T.vmax /\ body_count' = T.body_count
    /\ nudge_mode' = T.nudge_mode /\ nudge_step' = T.nudge_step
    /\ seed' = T.seed /\ diag' = T.diag
    /\ lastSet' = T.lastSet /\ setAcc' = T.setAcc /\ setSince' = T.setSince
    /\ overridden' = T.overridden
    /\ steps' = IF op = "simulate" THEN steps + 1 ELSE steps
    /\ nudgeAge' = IF op = "nudge" /\ ~nudge_mode THEN 0
                   ELSE IF op = "simulate" /\ nudgeAge >= 0 THEN nudgeAge + 1
                   ELSE nudgeAge
    /\ armedCount' = IF op = "nudge" /\ ~nudge_mode THEN body_count
                     ELSE IF T.body_count # body_count THEN 0
                     ELSE armedCount
    /\ last' = [op |-> op, args |-> args]
    /\ calls' = calls + 1
    /\ UNCHANGED <<mathArgs, mathRet>>

\* The engine at the start of a call: no diagnostic emitted yet.
Begin == [Eng EXCEPT !.diag = 0]

\* ------------------------------------------------------------------------
\* Actions: one per public operation, with the arguments drawn from a set
\* ------------------------------------------------------------------------

SetG(Args) == \E g \in Args : Call("setG", <<g>>, setG(Begin, g))

SetDt(Args) == \E d \in Args : Call("setDt", <<d>>, setDt(Begin, d))

SetPosDamping(Args) == \E d \in Args : Call("setPosDamping", <<d>>, setPosDamping(Begin, d))

SetVelDamping(Args) == \E d \in Args : Call("setVelDamping", <<d>>, setVelDamping(Begin, d))

SetSoftening(Args) == \E d \in Args : Call("setSoftening", <<d>>, setSoftening(Begin, d))

SetVmin(Args) == \E v \in Args : Call("setVmin", <<v>>, setVmin(Begin, v))

SetVmax(Args) == \E v \in Args : Call("setVmax", <<v>>, setVmax(Begin, v))

SetBodyCount(Args) == \E c \in Args : Call("setBodyCount", <<c>>, setBodyCount(Begin, c))

SetBodyMass(Args) == \E a \in Args : Call("setBodyMass", a, setBodyMass(Begin, a[1], a[2]))

SetBlackHole(Args) == \E a \in Args : Call("setBlackHole", a, setBlackHole(Begin, a[1], a[2], a[3]))

SetBody(Args) ==
    \E a \in Args : Call("setBody", a, setBody(Begin, a[1], a[2], a[3], a[4], a[5], a[6]))

LoadPreset(Args) == \E i \in Args : Call("loadPreset", <<i>>, loadPreset(Begin, i))

Reset == Call("reset", <<>>, reset(Begin))

Nudge == Call("nudge", <<>>, nudge(Begin))

Simulate == Call("simulate", <<>>, simulate(Begin))

\* ------------------------------------------------------------------------
\* Specification of the whole public interface
\* ------------------------------------------------------------------------

\* Number of public calls explored after construction.
MaxCalls == 2

GFew == {<<5, -2>>, <<105, -1>>}
DtFew == {Zero, <<1, -1>>}
PosDampingFew == {<<1, -1>>}
VelDampingFew == {<<6, -1>>}
SofteningFew == {<<51, -1>>}
VminFew == {<<7, 0>>, <<1, 3>>}
VmaxFew == {<<3, 0>>, <<1, 4>>}
BodyCountFew == {1, 2}
BodyMassFew == {<<0, <<3, 1>>>>}
BlackHoleFew == {<<<<-5, 2>>, <<5, 2>>, <<1, 4>>>>}
SetBodyFew == {<<1, <<3, 0>>, <<-4, 0>>, <<1, -1>>, Zero, <<2, 0>>>>}
PresetFew == {14}

Next ==
    /\ calls < MaxCalls
    /\ \/ SetG(GFew)
       \/ SetDt(DtFew)
       \/ SetPosDamping(PosDampingFew)
       \/ SetVelDamping(VelDampingFew)
       \/ SetSoftening(SofteningFew)
       \/ SetVmin(VminFew)
       \/ SetVmax(VmaxFew)
       \/ SetBodyCount(BodyCountFew)
       \/ SetBodyMass(BodyMassFew)
       \/ SetBlackHole(BlackHoleFew)
       \/ SetBody(SetBodyFew)
       \/ LoadPreset(PresetFew)
       \/ Reset
       \/ Nudge
       \/ Simulate

Spec == Init /\ [][Next]_vars

\* ------------------------------------------------------------------------
\* Specification of the validated setters, with arguments below, at, inside
\* and above every documented bound
\* ------------------------------------------------------------------------

MaxSetterCalls == 2

GArgs ==
    {<<-1, -3>>, Zero, <<5, -2>>, <<1, -1>>, <<100000001, -9>>, <<2, 0>>, <<1, 1>>,
     <<100000001, -7>>}
DtArgs == {<<-1, -2>>, Zero, <<1, -3>>, <<1, -1>>, <<11, -2>>}
PosDampingArgs == {<<-1, -2>>, Zero, <<3, -3>>, <<1, -1>>, <<2, -1>>}
VelDampingArgs == {<<-1, -3>>, Zero, <<5, -1>>, <<6, -1>>}
SofteningArgs == {<<-1, -1>>, Zero, <<5, 0>>, <<51, -1>>}
VminArgs == {<<5, -2>>, <<1, -1>>, <<7, 0>>, <<1, 3>>, <<1001, 0>>}
VmaxArgs == {<<5, -1>>, <<1, 0>>, <<3, 0>>, <<1, 4>>, <<10001, 0>>}
BodyCountArgs == {-1, 1, 2, 5, 10, 11}
BodyMassArgs ==
    {<<-1, <<1, 0>>>>, <<10, <<1, 0>>>>, <<0, <<5, -2>>>>, <<0, <<31, 0>>>>,
     <<0, <<1, -1>>>>, <<9, <<3, 1>>>>, <<3, <<2, 0>>>>}
BlackHoleArgs ==
    {<<<<501, 0>>, Zero, <<1, 0>>>>, <<<<-501, 0>>, Zero, <<1, 0>>>>,
     <<Zero, <<501, 0>>, <<1, 0>>>>, <<Zero, <<-501, 0>>, <<1, 0>>>>,
     <<Zero, Zero, <<-1, 0>>>>, <<Zero, Zero, <<10001, 0>>>>,
     <<<<-5, 2>>, <<5, 2>>, <<1, 4>>>>, <<<<5, 2>>, <<-5, 2>>, Zero>>,
     <<<<3, 0>>, <<4, 0>>, <<5, 0>>>>}

NextSetters ==
    /\ calls < MaxSetterCalls
    /\ \/ SetG(GArgs)
       \/ SetDt(DtArgs)
       \/ SetPosDamping(PosDampingArgs)
       \/ SetVelDamping(VelDampingArgs)
       \/ SetSoftening(SofteningArgs)
       \/ SetVmin(VminArgs)
       \/ SetVmax(VmaxArgs)
       \/ SetBodyCount(BodyCountArgs)
       \/ SetBodyMass(BodyMassArgs)
       \/ SetBlackHole(BlackHoleArgs)

SpecSetters == Init /\ [][NextSetters]_vars

\* ------------------------------------------------------------------------
\* Specification of configuration, stepping and reset
\* ------------------------------------------------------------------------

MaxSimCalls == 3

SimPresets == {14}
SimCounts == {4}
SimBodies == {<<3, <<25, 0>>, <<-1, 1>>, <<2, -1>>, <<-1, -1>>, <<3, 0>>>>}

NextSim ==
    /\ calls < MaxSimCalls
    /\ \/ LoadPreset(SimPresets)
       \/ SetBodyCount(SimCounts)
       \/ SetBody(SimBodies)
       \/ Nudge
       \/ Simulate
       \/ Reset

SpecSim == Init /\ [][NextSim]_vars

\* ------------------------------------------------------------------------
\* Specification of the nudge
\* ------------------------------------------------------------------------

MaxNudgeCalls == 5

NextNudge ==
    /\ calls < MaxNudgeCalls
    /\ \/ Nudge
       \/ Simulate

SpecNudge == Init /\ [][NextNudge]_vars

\* ------------------------------------------------------------------------
\* Specification of preset loading
\* ------------------------------------------------------------------------

MaxPresetCalls == 1

PresetArgs == -5 .. 20

NextPreset ==
    /\ calls < MaxPresetCalls
    /\ LoadPreset(PresetArgs)

SpecPreset == Init /\ [][NextPreset]_vars

\* ------------------------------------------------------------------------
\* Specification of the configuration calls: the validated setters, setBody
\* and loadPreset, with calls that have several invalid arguments at once
\* ------------------------------------------------------------------------

MaxConfigCalls == 2

ConfigBodies ==
    {<<-1, <<3, 0>>, <<-4, 0>>, <<1, -1>>, Zero, <<2, 0>>>>,
     <<10, <<3, 0>>, <<-4, 0>>, <<1, -1>>, Zero, <<2, 0>>>>,
     <<0, <<3, 0>>, <<-4, 0>>, <<1, -1>>, Zero, <<2, 0>>>>,
     <<9, <<1, 3>>, <<-1, 3>>, <<5, 1>>, <<-5, 1>>, <<1, 2>>>>}
ConfigPresets == {0, 15}

\* The arguments of the setter specification, and calls of setBodyMass and
\* setBlackHole with every argument invalid.
NextConfig ==
    /\ calls < MaxConfigCalls
    /\ \/ SetG(GArgs)
       \/ SetDt(DtArgs)
       \/ SetPosDamping(PosDampingArgs)
       \/ SetVelDamping(VelDampingArgs)
       \/ SetSoftening(SofteningArgs)
       \/ SetVmin(VminArgs)
       \/ SetVmax(VmaxArgs)
       \/ SetBodyCount(BodyCountArgs)
       \/ SetBodyMass(BodyMassArgs \cup {<<10, <<31, 0>>>>})
       \/ SetBlackHole(BlackHoleArgs \cup {<<<<501, 0>>, <<-501, 0>>, <<-1, 0>>>>})
       \/ SetBody(ConfigBodies)
       \/ LoadPreset(ConfigPresets)

SpecConfig == Init /\ [][NextConfig]_vars

\* ------------------------------------------------------------------------
\* Specification of clampSpeed applied to its own result
\* ------------------------------------------------------------------------

\* Number of successive applications.
MaxClampCalls == 2

\* Arguments (vx, vy, vmin, vmax): the zero vector, speeds below, at, inside
\* and above the bounds, and bounds in either order.
ClampInputs ==
    {<<Zero, Zero, <<1, 0>>, <<5, 0>>>>,
     <<<<3, 0>>, <<4, 0>>, <<1, 0>>, <<5, 0>>>>,
     <<<<3, -1>>, <<4, -1>>, <<1, 0>>, <<5, 0>>>>,
     <<<<3, 1>>, <<4, 1>>, <<1, 0>>, <<5, 0>>>>,
     <<<<6, 0>>, <<8, 0>>, <<1, 0>>, <<5, 0>>>>,
     <<<<1, 0>>, <<1, 0>>, <<2, 0>>, <<5, 0>>>>,
     <<<<1, -1>>, <<2, -1>>, <<1, 0>>, <<5, 0>>>>,
     <<<<7, 0>>, <<1, 0>>, <<1, 0>>, <<5, 0>>>>,
     <<<<1, 0>>, Zero, <<1, 0>>, <<5, 0>>>>,
     <<Zero, <<-7, 0>>, <<1, 0>>, <<5, 0>>>>,
     <<<<-3, 0>>, <<4, 0>>, <<6, 0>>, <<8, 0>>>>,
     <<<<3, 0>>, <<-4, 0>>, <<5, 0>>, <<5, 0>>>>,
     <<<<3, 0>>, <<4, 0>>, <<1, 1>>, <<2, 0>>>>,
     <<<<3, 0>>, <<4, 0>>, <<2, 0>>, <<1, 0>>>>,
     <<<<12, 0>>, <<5, 0>>, <<1, -1>>, <<1, 3>>>>,
     <<<<5, -2>>, <<12, -2>>, <<1, 0>>, <<1, 4>>>>}

InitClamp == InitEngine /\ mathArgs \in ClampInputs /\ mathRet = <<>>

\* The vector the next application takes: the arguments at first, then the
\* vector the application before returned.
ClampOperand ==
    IF mathRet = <<>> THEN Vector(mathArgs[1], mathArgs[2]) ELSE mathRet[Len(mathRet)]

\* v = math->clampSpeed(v.x, v.y, vmin, vmax)
ClampSpeed ==
    /\ Len(mathRet) < MaxClampCalls
    /\ mathRet' = Append(mathRet, clampSpeed(ClampOperand.x, ClampOperand.y,
                                             mathArgs[3], mathArgs[4]))
    /\ UNCHANGED <<engineVars, mathArgs>>

NextClamp == ClampSpeed

SpecClamp == InitClamp /\ [][NextClamp]_vars

\* ------------------------------------------------------------------------
\* Specification of the end of the nudge: the host goes on stepping.  Other
\* calls are bounded in number; simulate stays possible while the nudge is
\* armed, and is then eventually made.
\* ------------------------------------------------------------------------

MaxEndCalls == 3

EndPresets == {14}

\* simulate(), called within the bound or while the nudge is armed.
SimulateOn == (calls < MaxEndCalls \/ nudge_mode) /\ Simulate

NextEnd ==
    \/ calls < MaxEndCalls /\ Nudge
    \/ calls < MaxEndCalls /\ Reset
    \/ calls < MaxEndCalls /\ LoadPreset(EndPresets)
    \/ SimulateOn

\* Weak fairness of SimulateOn, written with its enabling condition in
\* place of ENABLED: simulate() has no precondition and every call counts,
\* so SimulateOn is enabled exactly where its guard holds.
FairSimulate ==
    \/ []<>~(calls < MaxEndCalls \/ nudge_mode)
    \/ []<><<SimulateOn>>_vars

SpecEnd == Init /\ [][NextEnd]_vars /\ FairSimulate

\* ------------------------------------------------------------------------
\* Properties
\* ------------------------------------------------------------------------

\* The validated setters.
Setters ==
    {"setG", "setDt", "setPosDamping", "setVelDamping", "setSoftening", "setVmin",
     "setVmax", "setBodyCount", "setBodyMass", "setBlackHole"}

\* The documented range of the arguments a of setter op (spec section 4.2).
InRange(op, a) ==
    CASE op = "setG"          -> Le(Zero, a[1]) /\ Le(a[1], <<1, 1>>)
      [] op = "setDt"         -> Lt(Zero, a[1]) /\ Le(a[1], <<1, -1>>)
      [] op = "setPosDamping" -> Le(Zero, a[1]) /\ Le(a[1], <<1, -1>>)
      [] op = "setVelDamping" -> Le(Zero, a[1]) /\ Le(a[1], <<5, -1>>)
      [] op = "setSoftening"  -> Le(Zero, a[1]) /\ Le(a[1], <<5, 0>>)
      [] op = "setVmin"       -> Le(<<1, -1>>, a[1]) /\ Le(a[1], <<1, 3>>)
      [] op = "setVmax"       -> Le(<<1, 0>>, a[1]) /\ Le(a[1], <<1, 4>>)
      [] op = "setBodyCount"  -> 2 <= a[1] /\ a[1] <= 10
      [] op = "setBodyMass"   -> /\ 0 <= a[1] /\ a[1] <= 9
                                 /\ Le(<<1, -1>>, a[2]) /\ Le(a[2], <<3, 1>>)
      [] op = "setBlackHole"  -> /\ Le(<<-5, 2>>, a[1]) /\ Le(a[1], <<5, 2>>)
                                 /\ Le(<<-5, 2>>, a[2]) /\ Le(a[2], <<5, 2>>)
                                 /\ Le(Zero, a[3]) /\ Le(a[3], <<1, 4>>)

TableValue(op, a) ==
    CASE op = "setG"          -> MaxD(a[1], <<1, -1>>)
      [] op = "setPosDamping" -> Div(a[1], <<1, 4>>)
      [] OTHER                -> a[1]

\* The parameter of engine S that setter op stores into.
Stored(S, op) ==
    CASE op = "setG"          -> S.G
      [] op = "setDt"         -> S.dt
      [] op = "setPosDamping" -> S.pos_damping
      [] op = "setVelDamping" -> S.vel_damping
      [] op = "setSoftening"  -> S.softening
      [] op = "setVmin"       -> S.vmin
      [] op = "setVmax"       -> S.vmax
      [] op = "setBodyCount"  -> S.body_count

ScalarSetters == Setters \ {"setBodyMass", "setBlackHole"}

\* C2: for every in-range argument (the bounds included) the scalar setters
\* store the value of the table: getG() = max(g, 0.1), getDt() = dt,
\* getPosDamping() = damp / 10000, and the argument itself for the others;
\* setDt(0) is rejected.
C2_StoredAsTable ==
    [][/\ (last'.op \in ScalarSetters /\ InRange(last'.op, last'.args))
            => Stored(Eng', last'.op) = TableValue(last'.op, last'.args)
       /\ (last' = [op |-> "setDt", args |-> <<Zero>>])
            => (dt' = dt /\ diag' = 1)]_vars

\* setG(0.100000001) has been accepted and G is 0.1.
C2_Witness ==
    /\ last = [op |-> "setG", args |-> <<<<100000001, -9>>>>]
    /\ diag = 0 /\ G = <<1, -1>>

C5_FreshRejectKeeps10 ==
    [][(calls = 0 /\ last' = [op |-> "setBodyCount", args |-> <<1>>])
         => (diag' = 1 /\ body_count' = body_count /\ body_count' = 10)]_vars

\* setBodyCount(1) has been the first call on the engine.
C5_Witness ==
    /\ calls = 1 /\ last = [op |-> "setBodyCount", args |-> <<1>>] /\ diag = 1

\* C5 as stated: on a freshly constructed engine setBodyCount(1) is rejected
\* with a diagnostic and the body count afterwards is still 3.
C5_FreshRejectKeeps3 ==
    [][(calls = 0 /\ last' = [op |-> "setBodyCount", args |-> <<1>>])
         => (diag' = 1 /\ body_count' = 3)]_vars

\* Position and velocity of a body.
Kinematics(b) == [x |-> b.x, y |-> b.y, vx |-> b.vx, vy |-> b.vy]

\* The active slots of an engine with n bodies.
Active(n) == 0 .. n - 1

\* C6: reset() leaves the position and velocity of every active body equal
\* to its initial-body record: the values last passed to setBody for the
\* slot if setBody has been called for it since the last loadPreset, and
\* zero otherwise.
C6_ResetRestoresConfigured ==
    [][last'.op = "reset"
         => \A i \in Active(body_count) :
              Kinematics(bodies'[i]) =
                  IF i \in setSince THEN lastSet[i] ELSE Kinematics(ZeroBody)]_vars

\* reset() has been called after a simulate() call with nudge armed.
C6_Witness ==
    /\ last.op = "reset" /\ steps >= 1 /\ nudgeAge >= 1
    /\ \A i \in Active(body_count) : Kinematics(bodies[i]) = lastSet[i]

\* C6 as stated: reset() leaves the position and velocity of every active
\* body equal to the values last passed to setBody for that slot.
C6_ResetRestoresLastSetBody ==
    [][last'.op = "reset"
         => \A i \in Active(body_count) : Kinematics(bodies'[i]) = lastSet[i]]_vars

\* C7: after simulate() calls, the acceleration reset() leaves in every
\* active body is the acceleration setBody computed for that body when it
\* was last configured.
C7_ResetAccelerationAsSetBody ==
    [][(last'.op = "reset" /\ steps >= 1)
         => \A i \in Active(body_count) \cap setSince :
              Vector(bodies'[i].ax, bodies'[i].ay) = setAcc[i]]_vars

\* reset() has been called after a simulate() call and has left body 0 with
\* an acceleration other than the one setBody computed for it.
C7_Witness ==
    /\ last.op = "reset" /\ steps >= 1 /\ 0 \in setSince
    /\ Vector(bodies[0].ax, bodies[0].ay) # setAcc[0]

\* C8: setBodyMass(index, mass) with a valid index and mass changes only
\* bodies[index].mass: the rest of that body, every other body, every
\* initial-body record, the black hole and the scalar parameters keep
\* their values.
C8_MassOnly ==
    [][(last'.op = "setBodyMass" /\ InRange("setBodyMass", last'.args))
         => /\ bodies' = [bodies EXCEPT ![last'.args[1]].mass = last'.args[2]]
            /\ initBodies' = initBodies /\ blackHole' = blackHole
            /\ <<G, dt, pos_damping, vel_damping, softening, vmin, vmax, body_count>>'
                 = <<G, dt, pos_damping, vel_damping, softening, vmin, vmax, body_count>>
            /\ nudge_mode' = nudge_mode /\ nudge_step' = nudge_step]_vars

\* setBodyMass(9, 30) has been accepted; the initial-body record of slot 9
\* keeps the mass 0.5 of the preset.
C8_Witness ==
    /\ last = [op |-> "setBodyMass", args |-> <<9, <<3, 1>>>>]
    /\ diag = 0 /\ bodies[9].mass = <<3, 1>> /\ initBodies[9].mass = <<5, -1>>

\* C9: after nudge() on a disarmed engine each of the next 20 simulate()
\* calls overrides the velocity of every active body, the mode is disarmed
\* after the 20th of them and armed before, and a later simulate() call
\* overrides no body until nudge() is called again.
C9_NudgeLasts20Calls ==
    [][(last'.op = "simulate" /\ nudgeAge' >= 1)
         => IF nudgeAge' <= 20
            THEN /\ overridden' = Active(body_count)
                 /\ nudge_mode' = (nudgeAge' < 20)
            ELSE nudge_mode \/ overridden' = {}]_vars

\* The third simulate() call after nudge() on the ten bodies of the
\* constructor's preset has overridden body 0 only and left the mode
\* disarmed.
C9_Witness ==
    /\ last.op = "simulate" /\ nudgeAge = 3 /\ body_count = 10
    /\ overridden = {0} /\ ~nudge_mode /\ nudge_step = 1

\* clamp(index, 1, 14).
Clamp1To14(index) == IF index < 1 THEN 1 ELSE IF index > 14 THEN 14 ELSE index

ConfigCalls == Setters \cup {"setBody"}

\* The arguments a of configuration call op are valid: inside the documented
\* range for a validated setter, an index of a slot for setBody.
Valid(op, a) == IF op = "setBody" THEN a[1] \in Slots ELSE InRange(op, a)

\* C11: every configuration call either has valid arguments and emits no
\* diagnostic, or emits exactly one diagnostic and leaves the engine as it
\* was, however many of its arguments are invalid; no rejected call is
\* silent; loadPreset emits no diagnostic for any index.
C11_OneDiagnosticPerReject ==
    [][/\ last'.op \in ConfigCalls
           => IF Valid(last'.op, last'.args) THEN diag' = 0
              ELSE diag' = 1 /\ Observable(Eng)' = Observable(Eng)
       /\ last'.op = "loadPreset" => diag' = 0]_vars

\* setBody has been called with the index 10, which is no slot, and has
\* returned without a diagnostic.
C11_Witness ==
    /\ last.op = "setBody" /\ last.args[1] = 10
    /\ diag = 0 /\ calls = 1

\* The calls that configure no body: the validated setters, nudge, reset and
\* simulate.
NoBodyCalls == Setters \cup {"nudge", "reset", "simulate"}

\* What setBody, reset and the calls that configure no body do to the
\* initial-body records: a call that configures no body changes none;
\* setBody(i, ...) changes at most the record of slot i, and bodies[i] and
\* initBodies[i] then agree on position, velocity and mass; after reset
\* every bodies[i] agrees with initBodies[i] on position and velocity.
InitBodiesFrame ==
    /\ last'.op \in NoBodyCalls => initBodies' = initBodies
    /\ last'.op = "setBody"
        => /\ \A j \in Slots \ {last'.args[1]} : initBodies'[j] = initBodies[j]
           /\ \A i \in Slots \cap {last'.args[1]} :
                  /\ Kinematics(bodies'[i]) = Kinematics(initBodies'[i])
                  /\ bodies'[i].mass = initBodies'[i].mass
    /\ last'.op = "reset"
        => \A i \in Slots : Kinematics(bodies'[i]) = Kinematics(initBodies'[i])

\* C12 (amended): initBodies[i] changes only when slot i is configured by
\* setBody(i, ...) or when loadPreset zeroes it: loadPreset leaves every
\* initial-body record that none of its setBody calls configures all zero;
\* simulate, nudge, reset and the validated setters change no initial-body
\* record; bodies[i] and initBodies[i] agree on position, velocity and mass
\* right after setBody(i, ...) and on position and velocity right after
\* reset.
C12_InitBodiesSetBodyOrZeroed ==
    [][/\ InitBodiesFrame
       /\ last'.op = "loadPreset"
           => \A i \in Slots \ setSince' : initBodies'[i] = ZeroBody]_vars

\* loadPreset(14) has been called on the fresh engine, whose ten slots were
\* configured: slots 3..9 are configured by none of its setBody calls and
\* their initial-body records are zero.
C12_Witness ==
    /\ last = [op |-> "loadPreset", args |-> <<14>>] /\ calls = 1
    /\ setSince = {0, 1, 2}
    /\ \A i \in 3..9 : initBodies[i] = ZeroBody
    /\ initBodies[0].mass = <<12, -1>>

\* C12 (as stated): initBodies[i] changes only when slot i is configured by
\* setBody(i, ...): loadPreset leaves every initial-body record that none of
\* its setBody calls configures as it was.
C12_InitBodiesOnlySetBody ==
    [][/\ InitBodiesFrame
       /\ last'.op = "loadPreset"
           => \A i \in Slots \ setSince' : initBodies'[i] = initBodies[i]]_vars

\* C13: clampSpeed is idempotent: applied to its own result with the same
\* bounds it returns that result again; the zero vector passes through
\* unchanged.
C13_ClampSpeedIdempotent ==
    [][/\ (mathRet # <<>> /\ mathRet' # mathRet)
           => mathRet'[Len(mathRet')] = mathRet[Len(mathRet)]
       /\ (mathRet = <<>> /\ mathRet' # mathRet /\ ClampOperand = Vector(Zero, Zero))
           => mathRet'[1] = Vector(Zero, Zero)]_vars

\* clampSpeed(3, 4, 10, 2) returned (6, 8), and clampSpeed(6, 8, 10, 2)
\* returned (1.2, 1.6).
C13_Witness ==
    /\ mathArgs = <<<<3, 0>>, <<4, 0>>, <<1, 1>>, <<2, 0>>>>
    /\ mathRet = <<Vector(<<6, 0>>, <<8, 0>>), Vector(<<12, -1>>, <<16, -1>>)>>

\* The engine S with every inactive body replaced by the zero body.
InactiveZeroed(S) ==
    [S EXCEPT !.bodies = [i \in Slots |-> IF i < S.body_count THEN @[i] ELSE ZeroBody]]

\* C14: one simulate() call leaves unchanged every body with index at or
\* above body_count, the mass of every body, the black hole and every
\* scalar parameter; and the new state of every active body is the one the
\* call computes when the inactive bodies hold nothing at all, so they
\* contribute to no active body's acceleration.
C14_SimulateFrame ==
    [][last'.op = "simulate"
         => /\ \A i \in Slots \ Active(body_count) : bodies'[i] = bodies[i]
            /\ \A i \in Slots : bodies'[i].mass = bodies[i].mass
            /\ blackHole' = blackHole
            /\ <<G, dt, pos_damping, vel_damping, softening, vmin, vmax, body_count>>'
                  = <<G, dt, pos_damping, vel_damping, softening, vmin, vmax, body_count>>
            /\ \A T \in {simulate(InactiveZeroed(Begin))} :
                  \A i \in Active(body_count) : bodies'[i] = T.bodies[i]]_vars

\* simulate() has run with four active bodies, six inactive bodies that have
\* mass and velocity, and a black hole with mass; an active body has moved.
C14_Witness ==
    /\ last.op = "simulate" /\ body_count = 4
    /\ \A i \in 4..9 : /\ bodies[i].mass # Zero
                         /\ Kinematics(bodies[i]) = Kinematics(initBodies[i])
    /\ bodies[5].vy # Zero
    /\ blackHole.mass # Zero
    /\ bodies[0].x # initBodies[0].x

\* The sum section 4.5 describes for the body in slot t of engine S: the
\* pull of every active body other than the target, in the order of the
\* slots, and then the pull of the black hole when its mass is not zero.
SumOfPulls(S, t) ==
    Loop11(LAMBDA acc, i :
               IF i < S.body_count /\ i # t
               THEN pairAcceleration(S, S.bodies[t], S.bodies[i], acc)
               ELSE IF i = S.body_count /\ S.blackHole.mass # Zero
               THEN pairAcceleration(S, S.bodies[t], S.blackHole, acc)
               ELSE acc,
           Vector(Zero, Zero))

\* The acceleration initBody stores for slot t of engine S from the sum v.
DampedAcceleration(S, t, v) ==
    Vector(Sub(v.x, Mul(S.bodies[t].x,
                        calcPositionDamping(S.bodies[t].x, S.bodies[t].y, S.pos_damping))),
           Sub(v.y, Mul(S.bodies[t].y,
                        calcPositionDamping(S.bodies[t].x, S.bodies[t].y, S.pos_damping))))

\* C15: the sum computeAcceleration returns for the target of a setBody
\* call, whatever slot 0..9 it is, contains the pull of every active body
\* other than the target, and the pull of the black hole exactly when the
\* mass of the black hole is not zero.
C15_SumOverActiveAndBlackHole ==
    [][(last'.op = "setBody" /\ last'.args[1] \in Slots)
         => \A v \in {SumOfPulls(Eng', last'.args[1])} :
                Vector(bodies'[last'.args[1]].ax, bodies'[last'.args[1]].ay)
                  = DampedAcceleration(Eng', last'.args[1], v)]_vars

\* setBody(3, ...) has been called with three active bodies and a black hole
\* that has mass: the target is the slot whose index is body_count.
C15_Witness ==
    /\ last.op = "setBody" /\ last.args[1] = 3
    /\ body_count = 3 /\ blackHole.mass # Zero
    /\ bodies[3].x = <<25, 0>>

\* C16: in every state after construction the black hole has x and y in
\* [-500, 500], mass in [0, 10000] and zero velocity and acceleration; the
\* black hole of a freshly constructed engine has mass 0; after an accepted
\* setBlackHole(x, y, mass) the black hole has exactly those values.
C16_BlackHoleInvariant ==
    /\ Le(<<-5, 2>>, blackHole.x) /\ Le(blackHole.x, <<5, 2>>)
    /\ Le(<<-5, 2>>, blackHole.y) /\ Le(blackHole.y, <<5, 2>>)
    /\ Le(Zero, blackHole.mass) /\ Le(blackHole.mass, <<1, 4>>)
    /\ blackHole.vx = Zero /\ blackHole.vy = Zero
    /\ blackHole.ax = Zero /\ blackHole.ay = Zero
    /\ calls = 0 => blackHole.mass = Zero
    /\ (last.op = "setBlackHole" /\ diag = 0)
        => blackHole = [x |-> last.args[1], y |-> last.args[2], vx |-> Zero, vy |-> Zero,
                        ax |-> Zero, ay |-> Zero, mass |-> last.args[3]]

\* The engine has been constructed on storage that held other values than
\* zero where its black hole lies, and no call has been made yet.
C16_Witness ==
    /\ calls = 0 /\ last.op = "Gravity"
    /\ blackHole.mass = <<5, 0>> /\ blackHole.x = <<7, 2>>

\* C17: the nudge always ends.  The counter is within 0..20 in every state;
\* while the mode is armed and body_count is the one it was armed with, no
\* more than ceil(21 / body_count) - 1 simulate() calls have been made since
\* it was armed, so the mode is disarmed within ceil(21 / body_count) calls;
\* nudge() arms the mode and leaves the counter alone, armed before or not;
\* reset() and loadPreset() change neither the mode nor the counter; and
\* an armed mode is eventually disarmed.
C17_NudgeEnds ==
    /\ [](0 <= nudge_step /\ nudge_step <= 20)
    /\ []((nudge_mode /\ armedCount = body_count) => nudgeAge * body_count < 21)
    /\ [][/\ last'.op = "nudge" => nudge_mode' /\ nudge_step' = nudge_step
          /\ last'.op \in {"reset", "loadPreset"}
              => nudge_mode' = nudge_mode /\ nudge_step' = nudge_step]_vars
    /\ (nudge_mode ~> ~nudge_mode)

\* The mode was armed with ten active bodies and has been disarmed by the
\* third simulate() after that, with the counter past its restart.
C17_Witness ==
    /\ last.op = "simulate" /\ ~nudge_mode
    /\ nudgeAge = 3 /\ armedCount = 10 /\ body_count = 10
    /\ nudge_step = 1

=============================================================================
